---------------------------- MODULE Spec2Model ----------------------------
(***************************************************************************)
(* Worktree removal (IPC handler WORKTREE_REMOVE + WorktreeService.remove) *)
(* together with the AgentSessionManager whose sessions the handler tears  *)
(* down.  Node runs one synchronous segment at a time: every action below  *)
(* is the code between two awaits (or one event callback).                 *)
(*                                                                         *)
(* Paths are sequences of one-character strings, tool error messages are   *)
(* sequences of words, so that replace/toLowerCase/startsWith/includes are *)
(* computed and not assumed.                                               *)
(***************************************************************************)
EXTENDS Integers, Sequences, FiniteSets, TLC

\* ------------------------------------------------------------------ bounds
\* create() calls per behaviour (the counter itself is unbounded in the code)
MaxCreates == 2
\* send() calls per behaviour
MaxSends == 2
\* lines of the output of git worktree list --porcelain
MaxLines == 4
\* characters an agent process writes to its stdout
MaxStream == 4

\* ---------------------------------------------------------------- strings
\* "/w", "/W", "\W\s", "/wx"
PathW == <<"/", "w">>
PathUpperW == <<"/", "W">>
PathSub == <<"\\", "W", "\\", "s">>
PathWx == <<"/", "w", "x">>

\* working directories agent sessions are created in
Workdirs == {PathW, PathSub, PathWx}
\* options.path of a WORKTREE_REMOVE request
RemovePaths == {PathW, PathUpperW}
\* options.branch: absent (empty) or a branch name
Branches == {<<>>, <<"f">>}

\* String.prototype.toLowerCase on one character
ToLowerChar(c) ==
    CASE c = "W" -> "w"
      [] c = "S" -> "s"
      [] c = "X" -> "x"
      [] OTHER -> c

\* s.replace(/\\/g, '/')
ReplaceBackslashes(s) == [i \in 1..Len(s) |-> IF s[i] = "\\" THEN "/" ELSE s[i]]

\* s.toLowerCase()
ToLowerCase(s) == [i \in 1..Len(s) |-> ToLowerChar(s[i])]

\* workdir.replace(/\\/g, '/').toLowerCase()
NormalizePath(s) == ToLowerCase(ReplaceBackslashes(s))

\* s.startsWith(p)
StartsWith(s, p) == Len(p) <= Len(s) /\ SubSeq(s, 1, Len(p)) = p

\* s.includes(p), on words
Includes(s, p) ==
    \E i \in 1..(Len(s) + 1) :
        i + Len(p) - 1 <= Len(s) /\ SubSeq(s, i, i + Len(p) - 1) = p

\* variant of WorkdirMatches: startsWith(normalizedWorkdir), the '/' forgotten
WorkdirMatchesAnyPrefix(cwd, workdir) ==
    \/ NormalizePath(cwd) = NormalizePath(workdir)
    \/ StartsWith(NormalizePath(cwd), NormalizePath(workdir))

\* the condition of stopByWorkdir's if
WorkdirMatches(cwd, workdir) ==
    \/ NormalizePath(cwd) = NormalizePath(workdir)
    \/ StartsWith(NormalizePath(cwd), NormalizePath(workdir) \o <<"/">>)

\* ----------------------------------------------------- tool error messages
MsgPermissionDenied == <<"error:", "failed", "to", "delete", "Permission", "denied">>
MsgNotWorktree == <<"fatal:", "path", "is", "not", "a", "working", "tree">>
MsgModified == <<"fatal:", "path", "contains", "modified", "files">>
MsgLowerPermission == <<"fatal:", "permission", "denied">>
MsgPruneFailed == <<"fatal:", "not", "a", "git", "repository">>

\* what 'git worktree remove' can fail with
RemoveErrors == {MsgPermissionDenied, MsgNotWorktree, MsgModified, MsgLowerPermission}

IsPermissionDenied(errorMessage) == Includes(errorMessage, <<"Permission", "denied">>)
IsNotWorktree(errorMessage) == Includes(errorMessage, <<"is", "not", "a", "working", "tree">>)

\* variant of Recognised: every failure of git worktree remove is recovered
RecognisedAlways(errorMessage) == TRUE

\* the condition of remove's if in the catch block
Recognised(errorMessage) == IsPermissionDenied(errorMessage) \/ IsNotWorktree(errorMessage)

\* variant of GenericMessage: rmError rethrown as it is
RawDeleteError(path) == <<"EBUSY:", "resource", "busy", "or", "locked">>

\* the message of the Error thrown when the manual deletion fails
GenericMessage(path) ==
    <<"Failed to remove worktree directory: ">> \o path \o
    <<". Please close any programs using this directory and try again.">>

\* ------------------------------------------------------------------- state
VARIABLES
    sessions,   \* AgentSessionManager.sessions: id -> Session
    counter,    \* AgentSessionManager.counter
    procs,      \* child process n: "none", "running", "killed" (signalled), "exited"
    returned,   \* history: the ids create() has returned, in order
    platform,   \* process.platform
    req         \* the WORKTREE_REMOVE request: position, options, steps so far
                \* (log), the message caught from git worktree remove, the
                \* error the call rejected with, and, while the handler waits
                \* on its timer, the sessions its stopByWorkdir call stopped

VARIABLES
    stdin,      \* child process n: what has been written to its stdin, in order
    sendLog     \* history: the send() calls so far, each with how it settled

VARIABLES
    porcelain,  \* list(): the output of git worktree list --porcelain
    worktrees   \* list(): whether it has returned, and the array it returned

VARIABLES
    stdout,     \* what the agent process writes to stdout over its life
    chunks,     \* history: the lengths of the chunks the 'data' events so far
                \* carried, in order
    buffer,     \* create(): the buffer of the stdout listener
    delivered   \* history: the content of the messages passed to onMessage

ioVars == <<stdin, sendLog>>
listVars == <<porcelain, worktrees>>
streamVars == <<stdout, chunks, buffer, delivered>>
pureVars == <<listVars, streamVars>>

vars == <<sessions, counter, procs, returned, platform, req, ioVars, pureVars>>

Platforms == {"win32", "linux"}

\* `agent-${n}`
AgentId(n) == <<"agent-", n>>

Event(op, ev) == [op |-> op, ev |-> ev]

IdleRequest ==
    [pc |-> "idle", path |-> <<>>, force |-> FALSE, deleteBranch |-> FALSE,
     branch |-> <<>>, log |-> <<>>, caught |-> <<>>, error |-> <<>>,
     stopped |-> {}]

\* nothing sent yet
IoInit ==
    /\ stdin = [n \in 1..MaxCreates |-> <<>>]
    /\ sendLog = <<>>

\* the array list() has not returned yet
NotReturned == [returned |-> FALSE, value |-> <<>>]

\* list() not called
ListIdle ==
    /\ porcelain = <<>>
    /\ worktrees = NotReturned

\* no agent output
StreamIdle ==
    /\ stdout = <<>>
    /\ chunks = <<>>
    /\ buffer = <<>>
    /\ delivered = <<>>

\* the session manager and the handler right after construction
ManagerInit ==
    /\ sessions = [k \in {} |-> 0]
    /\ counter = 0
    /\ procs = [n \in 1..MaxCreates |-> "none"]
    /\ returned = <<>>
    /\ platform \in Platforms
    /\ req = IdleRequest
    /\ IoInit

Init ==
    /\ ManagerInit
    /\ ListIdle
    /\ StreamIdle

\* ---------------------------------------------------- AgentSessionManager
\* Map.prototype.delete
MapDelete(m, keys) == [k \in (DOMAIN m) \ keys |-> m[k]]

\* Map.prototype.set
MapSet(m, k, v) == [x \in (DOMAIN m) \cup {k} |-> IF x = k THEN v ELSE m[x]]

\* ChildProcess.kill(): signals a live process, does nothing to a dead one
KillAll(ps, pids) ==
    [n \in DOMAIN ps |-> IF n \in pids /\ ps[n] = "running" THEN "killed" ELSE ps[n]]

\* variant of NewCounter: the id numbered from the size of the map
NewCounterFromSize(c, m) == Cardinality(DOMAIN m) + 1

\* ++this.counter
NewCounter(c, m) == c + 1

\* create(agent, workdir, onMessage)
Create(workdir) ==
    /\ Len(returned) < MaxCreates
    /\ LET n == NewCounter(counter, sessions)
           id == AgentId(n)
           pid == Len(returned) + 1
           session == [id |-> id, process |-> pid, workdir |-> workdir]
       IN /\ counter' = n
          /\ procs' = [procs EXCEPT ![pid] = "running"]
          /\ sessions' = MapSet(sessions, id, session)
          /\ returned' = Append(returned, id)
    /\ UNCHANGED <<platform, ioVars, pureVars, req>>

\* stop(sessionId)
Stop(sessionId) ==
    /\ IF sessionId \in DOMAIN sessions
       THEN /\ procs' = KillAll(procs, {sessions[sessionId].process})
            /\ sessions' = MapDelete(sessions, {sessionId})
       ELSE UNCHANGED <<procs, sessions>>
    /\ UNCHANGED <<counter, returned, platform, ioVars, pureVars, req>>

\* stopAll()
StopAll ==
    /\ procs' = KillAll(procs, {sessions[k].process : k \in DOMAIN sessions})
    /\ sessions' = MapDelete(sessions, DOMAIN sessions)
    /\ UNCHANGED <<counter, returned, platform, ioVars, pureVars, req>>

\* the sessions stopByWorkdir(workdir) kills and deletes
StoppedByWorkdir(m, workdir) ==
    {k \in DOMAIN m : WorkdirMatches(m[k].workdir, workdir)}

\* stopByWorkdir(workdir), called on the manager
StopByWorkdir(workdir) ==
    /\ LET stopped == StoppedByWorkdir(sessions, workdir)
       IN /\ procs' = KillAll(procs, {sessions[k].process : k \in stopped})
          /\ sessions' = MapDelete(sessions, stopped)
    /\ UNCHANGED <<counter, returned, platform, req, ioVars, pureVars>>

\* variant of ExitKey: the listener reads the manager's counter when it runs
ExitKeyLatest(pid) == AgentId(counter)

\* the key the 'exit' listener of process pid deletes: the id of the create()
\* call that spawned it, which the listener closes over
ExitKey(pid) == returned[pid]

\* the 'exit' listener create() registers on process pid
ProcExit(pid) ==
    /\ pid \in 1..Len(returned)
    /\ procs[pid] \in {"running", "killed"}
    /\ procs' = [procs EXCEPT ![pid] = "exited"]
    /\ sessions' = MapDelete(sessions, {ExitKey(pid)})
    /\ UNCHANGED <<counter, returned, platform, ioVars, pureVars, req>>

\* what send() may be asked to send
Contents == {<<"h", "i">>}

\* the line send() writes: the ACP PromptRequest (its random id left out)
\* followed by a newline
PromptLine(content) ==
    <<[jsonrpc |-> "2.0", method |-> "prompt", text |-> content], "\n">>

\* variant of SendOutcome: no check of the lookup, the call always resolves
SendOutcomeUnchecked(found, sessionId) == [settled |-> "resolved", message |-> <<>>]

\* how send() settles: it throws 'Session not found: <id>' when the lookup
\* found nothing
SendOutcome(found, sessionId) ==
    IF found
    THEN [settled |-> "resolved", message |-> <<>>]
    ELSE [settled |-> "rejected", message |-> <<"Session not found: ", sessionId>>]

\* send(sessionId, content)
Send(sessionId, content) ==
    /\ Len(sendLog) < MaxSends
    /\ LET found == sessionId \in DOMAIN sessions
           outcome == SendOutcome(found, sessionId)
       IN /\ stdin' = IF found
                      THEN [stdin EXCEPT ![sessions[sessionId].process] =
                                            Append(@, PromptLine(content))]
                      ELSE stdin
          /\ sendLog' = Append(sendLog, [id |-> sessionId, content |-> content,
                                         settled |-> outcome.settled,
                                         message |-> outcome.message])
    /\ UNCHANGED <<sessions, counter, procs, returned, platform, req, pureVars>>

\* ------------------------------------------- WORKTREE_REMOVE handler, remove
Log(events) == req.log \o events

\* a truthy string (options.branch may be undefined or '')
Truthy(str) == str # <<>>

\* the await of a step that failed rejects the whole async function
Reject(events, message) ==
    req' = [req EXCEPT !.pc = "rejected", !.log = Log(events), !.error = message]

\* the renderer invokes WORKTREE_REMOVE; the handler runs up to its first await
RemoveRequest(path, force, deleteBranch, branch) ==
    /\ req.pc = "idle"
    /\ req' = [req EXCEPT !.pc = "stopWatchers", !.path = path, !.force = force,
                          !.deleteBranch = deleteBranch, !.branch = branch,
                          !.log = <<Event("stopWatchersInDirectory", "start")>>]
    /\ UNCHANGED <<sessions, counter, procs, returned, platform, ioVars, pureVars>>

\* the steps the handler runs once stopWatchersInDirectory has resolved
TeardownEvents ==
    << Event("stopWatchersInDirectory", "done"),
       Event("destroyByWorkdir", "done"),
       Event("stopByWorkdir", "done"),
       Event("delay1000", "start") >>

\* variant of AfterTeardown: the timer promise is not awaited, remove starts
\* at once
AfterTeardownNoWait(stopped) ==
    req' = [req EXCEPT !.pc = "prune1",
                       !.log = Log(TeardownEvents \o <<Event("prune", "start")>>)]

\* where the handler is once the teardown calls have returned: awaiting the
\* 1000 ms timer
AfterTeardown(stopped) ==
    req' = [req EXCEPT !.pc = "handlerDelay", !.stopped = stopped,
                       !.log = Log(TeardownEvents)]

\* stopWatchersInDirectory resolved: destroyByWorkdir, stopByWorkdir, setTimeout
StopWatchersDone ==
    /\ req.pc = "stopWatchers"
    /\ LET stopped == StoppedByWorkdir(sessions, req.path)
       IN /\ procs' = KillAll(procs, {sessions[k].process : k \in stopped})
          /\ sessions' = MapDelete(sessions, stopped)
          /\ AfterTeardown({sessions[k] : k \in stopped})
    /\ UNCHANGED <<counter, returned, platform, ioVars, pureVars>>

\* stopWatchersInDirectory rejected: the handler rejects, remove is never called
StopWatchersFail ==
    /\ req.pc = "stopWatchers"
    /\ req' = [req EXCEPT !.pc = "aborted",
                          !.log = Log(<<Event("stopWatchersInDirectory", "fail")>>)]
    /\ UNCHANGED <<sessions, counter, procs, returned, platform, ioVars, pureVars>>

\* the timer fired: getWorktreeService, service.remove(options) up to the
\* await of the first prune
HandlerDelayElapsed ==
    /\ req.pc = "handlerDelay"
    /\ req' = [req EXCEPT !.pc = "prune1", !.stopped = {},
                          !.log = Log(<<Event("delay1000", "done"),
                                        Event("prune", "start")>>)]
    /\ UNCHANGED <<sessions, counter, procs, returned, platform, ioVars, pureVars>>

\* args of the removal command
RemoveCommand(force) == IF force THEN "worktreeRemoveForce" ELSE "worktreeRemove"

\* the first prune succeeded: git worktree remove is issued
PruneFirstDone ==
    /\ req.pc = "prune1"
    /\ req' = [req EXCEPT !.pc = "worktreeRemove",
                          !.log = Log(<<Event("prune", "done"),
                                        Event(RemoveCommand(req.force), "start")>>)]
    /\ UNCHANGED <<sessions, counter, procs, returned, platform, ioVars, pureVars>>

\* the first prune failed: remove rejects with git's error
PruneFirstFail ==
    /\ req.pc = "prune1"
    /\ Reject(<<Event("prune", "fail")>>, MsgPruneFailed)
    /\ UNCHANGED <<sessions, counter, procs, returned, platform, ioVars, pureVars>>

\* variant of AfterRemoval: options.deleteBranch || options.branch
AfterRemovalEitherOption(events) ==
    IF req.deleteBranch \/ Truthy(req.branch)
    THEN req' = [req EXCEPT !.pc = "branchDelete",
                            !.log = Log(events \o <<Event("branchDelete", "start")>>)]
    ELSE req' = [req EXCEPT !.pc = "resolved", !.log = Log(events)]

\* the code after the try/catch: delete the branch if requested
AfterRemoval(events) ==
    IF req.deleteBranch /\ Truthy(req.branch)
    THEN req' = [req EXCEPT !.pc = "branchDelete",
                            !.log = Log(events \o <<Event("branchDelete", "start")>>)]
    ELSE req' = [req EXCEPT !.pc = "resolved", !.log = Log(events)]

\* git worktree remove succeeded
WorktreeRemoveDone ==
    /\ req.pc = "worktreeRemove"
    /\ AfterRemoval(<<Event(RemoveCommand(req.force), "done")>>)
    /\ UNCHANGED <<sessions, counter, procs, returned, platform, ioVars, pureVars>>

\* the manual deletion command
DeleteCommand == IF platform = "win32" THEN "rmdir" ELSE "rm"

\* variant of KillStart: the deletion is issued without the kill having
\* finished and without the 500 ms wait
KillStartNoDelay(errorMessage, events) ==
    req' = [req EXCEPT !.pc = "manualDelete", !.caught = errorMessage,
                       !.log = Log(events \o <<Event("kill", "skipped"),
                                               Event(DeleteCommand, "start")>>)]

\* killProcessesInDirectory up to its first await (it returns at once off
\* Windows, and the 500 ms timer is started)
KillStart(errorMessage, events) ==
    IF platform # "win32"
    THEN req' = [req EXCEPT !.pc = "retryDelay", !.caught = errorMessage,
                            !.log = Log(events \o <<Event("kill", "skipped"),
                                                    Event("delay500", "start")>>)]
    ELSE req' = [req EXCEPT !.pc = "kill", !.caught = errorMessage,
                            !.log = Log(events \o <<Event("kill", "start")>>)]

\* git worktree remove failed with errorMessage; exists is existsSync(options.path)
WorktreeRemoveFail(errorMessage, exists) ==
    /\ req.pc = "worktreeRemove"
    /\ LET failed == <<Event(RemoveCommand(req.force), "fail")>>
       IN IF Recognised(errorMessage)
          THEN IF exists
               THEN KillStart(errorMessage, failed \o <<Event("existsSync", "true")>>)
               ELSE req' = [req EXCEPT !.pc = "prune2", !.caught = errorMessage,
                                       !.log = Log(failed \o
                                                   <<Event("existsSync", "false"),
                                                     Event("prune", "start")>>)]
          ELSE req' = [req EXCEPT !.pc = "rejected", !.caught = errorMessage,
                                  !.error = errorMessage, !.log = Log(failed)]
    /\ UNCHANGED <<sessions, counter, procs, returned, platform, ioVars, pureVars>>

\* what follows a failed PowerShell kill: the catch block is empty, the 500 ms
\* timer is started
AfterKillFail ==
    req' = [req EXCEPT !.pc = "retryDelay",
                       !.log = Log(<<Event("kill", "fail"), Event("delay500", "start")>>)]

\* the PowerShell kill finished; a failure is caught and ignored
KillDone(ok) ==
    /\ req.pc = "kill"
    /\ IF ok
       THEN req' = [req EXCEPT !.pc = "retryDelay",
                               !.log = Log(<<Event("kill", "done"),
                                             Event("delay500", "start")>>)]
       ELSE AfterKillFail
    /\ UNCHANGED <<sessions, counter, procs, returned, platform, ioVars, pureVars>>

\* the 500 ms timer fired: the manual deletion is issued
RetryDelayElapsed ==
    /\ req.pc = "retryDelay"
    /\ req' = [req EXCEPT !.pc = "manualDelete",
                          !.log = Log(<<Event("delay500", "done"),
                                        Event(DeleteCommand, "start")>>)]
    /\ UNCHANGED <<sessions, counter, procs, returned, platform, ioVars, pureVars>>

\* variant of ManualDeleteDone: no second prune
ManualDeleteDoneNoPrune ==
    /\ req.pc = "manualDelete"
    /\ AfterRemoval(<<Event(DeleteCommand, "done")>>)
    /\ UNCHANGED <<sessions, counter, procs, returned, platform, ioVars, pureVars>>

\* the manual deletion succeeded: prune again
ManualDeleteDone ==
    /\ req.pc = "manualDelete"
    /\ req' = [req EXCEPT !.pc = "prune2",
                          !.log = Log(<<Event(DeleteCommand, "done"),
                                        Event("prune", "start")>>)]
    /\ UNCHANGED <<sessions, counter, procs, returned, platform, ioVars, pureVars>>

\* the manual deletion failed: remove rejects with the generic message
ManualDeleteFail ==
    /\ req.pc = "manualDelete"
    /\ Reject(<<Event(DeleteCommand, "fail")>>, GenericMessage(req.path))
    /\ UNCHANGED <<sessions, counter, procs, returned, platform, ioVars, pureVars>>

\* the second prune succeeded
PruneSecondDone ==
    /\ req.pc = "prune2"
    /\ AfterRemoval(<<Event("prune", "done")>>)
    /\ UNCHANGED <<sessions, counter, procs, returned, platform, ioVars, pureVars>>

\* the second prune failed: it is awaited inside the catch block, remove rejects
PruneSecondFail ==
    /\ req.pc = "prune2"
    /\ Reject(<<Event("prune", "fail")>>, MsgPruneFailed)
    /\ UNCHANGED <<sessions, counter, procs, returned, platform, ioVars, pureVars>>

\* variant of AfterBranchFail: the error of git branch -D is not caught
AfterBranchFailRejects ==
    Reject(<<Event("branchDelete", "fail")>>, <<"error:", "branch", "not", "found">>)

\* what follows a failed git branch -D: the catch block is empty
AfterBranchFail ==
    req' = [req EXCEPT !.pc = "resolved", !.log = Log(<<Event("branchDelete", "fail")>>)]

\* git branch -D finished; a failure is caught and ignored
BranchDeleteDone(ok) ==
    /\ req.pc = "branchDelete"
    /\ IF ok
       THEN req' = [req EXCEPT !.pc = "resolved",
                               !.log = Log(<<Event("branchDelete", "done")>>)]
       ELSE AfterBranchFail
    /\ UNCHANGED <<sessions, counter, procs, returned, platform, ioVars, pureVars>>

\* ----------------------------------------------------------- specification
AllIds == {AgentId(n) : n \in 1..MaxCreates}

Next ==
    \/ \E w \in Workdirs : Create(w)
    \/ \E id \in AllIds : Stop(id)
    \/ StopAll
    \/ \E pid \in 1..MaxCreates : ProcExit(pid)
    \/ \E p \in RemovePaths, f \in BOOLEAN, d \in BOOLEAN, b \in Branches :
           RemoveRequest(p, f, d, b)
    \/ StopWatchersDone
    \/ StopWatchersFail
    \/ HandlerDelayElapsed
    \/ PruneFirstDone
    \/ PruneFirstFail
    \/ WorktreeRemoveDone
    \/ \E m \in RemoveErrors, e \in BOOLEAN : WorktreeRemoveFail(m, e)
    \/ \E ok \in BOOLEAN : KillDone(ok)
    \/ RetryDelayElapsed
    \/ ManualDeleteDone
    \/ ManualDeleteFail
    \/ PruneSecondDone
    \/ PruneSecondFail
    \/ \E ok \in BOOLEAN : BranchDeleteDone(ok)

Spec == Init /\ [][Next]_vars

\* ------------------------------------------------------ WorktreeService.list
\* a property that was never assigned
Undefined == <<"undefined">>

KwWorktree == <<"w", "o", "r", "k", "t", "r", "e", "e", " ">>
KwHead == <<"H", "E", "A", "D", " ">>
KwBranch == <<"b", "r", "a", "n", "c", "h", " ">>
KwBare == <<"b", "a", "r", "e">>
KwLocked == <<"l", "o", "c", "k", "e", "d">>
KwPrunable == <<"p", "r", "u", "n", "a", "b", "l", "e">>
RefsHeads == <<"r", "e", "f", "s", "/", "h", "e", "a", "d", "s", "/">>

\* the lines git prints: 'worktree /a', 'worktree /b', 'worktree ' (no path),
\* 'HEAD 1', 'branch refs/heads/m', 'bare', 'locked', 'locked r' (locked with
\* a reason), 'prunable', 'prunable r' (prunable with its reason), ''
PorcelainLines ==
    { KwWorktree \o <<"/", "a">>, KwWorktree \o <<"/", "b">>, KwWorktree,
      KwHead \o <<"1">>, KwBranch \o RefsHeads \o <<"m">>, KwBare,
      KwLocked, KwLocked \o <<" ", "r">>,
      KwPrunable, KwPrunable \o <<" ", "r">>, <<>> }

\* the lines joined by '\n', as git writes them
RECURSIVE JoinLines(_)
JoinLines(ls) ==
    IF Len(ls) = 0 THEN <<>>
    ELSE IF Len(ls) = 1 THEN ls[1]
    ELSE ls[1] \o <<"\n">> \o JoinLines(Tail(ls))

\* the outputs list() is run on
PorcelainOutputs ==
    {JoinLines(ls) : ls \in UNION {[1..n -> PorcelainLines] : n \in 0..MaxLines}}

\* s.split('\n')
RECURSIVE SplitOn(_, _)
SplitOn(s, sep) ==
    IF \A i \in 1..Len(s) : s[i] # sep
    THEN <<s>>
    ELSE LET i == CHOOSE k \in 1..Len(s) :
                      s[k] = sep /\ \A j \in 1..(k - 1) : s[j] # sep
         IN <<SubSeq(s, 1, i - 1)>> \o SplitOn(SubSeq(s, i + 1, Len(s)), sep)

\* s.substring(n)
Substring(s, n) == SubSeq(s, n + 1, Len(s))

\* s.replace(pat, ''): the first occurrence of pat removed
ReplaceFirst(s, pat) ==
    LET hits == {i \in 1..(Len(s) - Len(pat) + 1) : SubSeq(s, i, i + Len(pat) - 1) = pat}
    IN IF hits = {} THEN s
       ELSE LET i == CHOOSE k \in hits : \A j \in hits : k <= j
            IN SubSeq(s, 1, i - 1) \o SubSeq(s, i + Len(pat), Len(s))

\* current = {} before the first 'worktree ' line
EmptyCurrent ==
    [path |-> Undefined, head |-> Undefined, branch |-> Undefined,
     isMainWorktree |-> FALSE, isLocked |-> FALSE, prunable |-> FALSE]

\* current.path is truthy
HasPath(current) == current.path # Undefined /\ current.path # <<>>

\* if (current.path) worktrees.push(current)
PushCurrent(acc) ==
    IF HasPath(acc.current) THEN Append(acc.worktrees, acc.current) ELSE acc.worktrees

\* variant of FlagLine: line.startsWith(keyword)
FlagLinePrefix(line, keyword) == StartsWith(line, keyword)

\* line === 'locked', line === 'prunable', line === 'bare'
FlagLine(line, keyword) == line = keyword

\* the body of the for loop of list() on one line
ListLine(acc, line) ==
    IF StartsWith(line, KwWorktree)
    THEN [worktrees |-> PushCurrent(acc),
          current |-> [path |-> Substring(line, 9), head |-> Undefined,
                       branch |-> Undefined, isMainWorktree |-> FALSE,
                       isLocked |-> FALSE, prunable |-> FALSE]]
    ELSE IF StartsWith(line, KwHead)
    THEN [acc EXCEPT !.current.head = Substring(line, 5)]
    ELSE IF StartsWith(line, KwBranch)
    THEN [acc EXCEPT !.current.branch = ReplaceFirst(Substring(line, 7), RefsHeads)]
    ELSE IF FlagLine(line, KwBare)
    THEN [acc EXCEPT !.current.isMainWorktree = TRUE]
    ELSE IF FlagLine(line, KwLocked)
    THEN [acc EXCEPT !.current.isLocked = TRUE]
    ELSE IF FlagLine(line, KwPrunable)
    THEN [acc EXCEPT !.current.prunable = TRUE]
    ELSE acc

\* the for loop of list()
RECURSIVE ListLoop(_, _)
ListLoop(acc, lines) ==
    IF lines = <<>> THEN acc ELSE ListLoop(ListLine(acc, Head(lines)), Tail(lines))

\* worktrees[0].isMainWorktree = true
MarkFirstMain(ws) ==
    IF Len(ws) > 0 THEN [ws EXCEPT ![1].isMainWorktree = TRUE] ELSE ws

\* list() on the output of git
ParseWorktrees(result) ==
    LET acc == ListLoop([worktrees |-> <<>>, current |-> EmptyCurrent],
                        SplitOn(result, "\n"))
    IN MarkFirstMain(PushCurrent(acc))

\* list(): git has printed porcelain, the array is returned
List ==
    /\ ~worktrees.returned
    /\ worktrees' = [returned |-> TRUE, value |-> ParseWorktrees(porcelain)]
    /\ UNCHANGED <<sessions, counter, procs, returned, platform, req, ioVars,
                   porcelain, streamVars>>

InitList ==
    /\ ManagerInit
    /\ platform = "linux"
    /\ StreamIdle
    /\ porcelain \in PorcelainOutputs
    /\ worktrees = NotReturned

NextList == List

SpecList == InitList /\ [][NextList]_vars

\* --------------------------------------- stdout listener of create(), NDJSON
\* the characters of the stream: digits (JSON numbers), a character no JSON
\* text holds, a space, the newline. All are ASCII, so chunk.toString() gives
\* the characters of the chunk one for one.
StreamChars == {"1", "2", "x", " ", "\n"}

\* what the process may write over its life
Streams == UNION {[1..n -> StreamChars] : n \in 0..MaxStream}

RECURSIVE SumOf(_)
SumOf(ns) == IF ns = <<>> THEN 0 ELSE Head(ns) + SumOf(Tail(ns))

\* the characters the 'data' events so far carried
Consumed == SumOf(chunks)

\* white space of String.prototype.trim and of JSON
IsSpace(c) == c = " "

\* s.trim()
RECURSIVE Trim(_)
Trim(s) ==
    IF s = <<>> THEN s
    ELSE IF IsSpace(s[1]) THEN Trim(Tail(s))
    ELSE IF IsSpace(s[Len(s)]) THEN Trim(SubSeq(s, 1, Len(s) - 1))
    ELSE s

\* JSON.parse(line) returns: over these characters, the text is a number with
\* white space around it
JsonParses(line) ==
    /\ Trim(line) # <<>>
    /\ \A i \in 1..Len(Trim(line)) : Trim(line)[i] \in {"1", "2"}

\* JSON.stringify(JSON.parse(line)), the content handleMessage passes on
MessageContent(line) == Trim(line)

\* the messages the for loop over lines passes to onMessage
RECURSIVE MessagesOf(_)
MessagesOf(lines) ==
    IF lines = <<>> THEN <<>>
    ELSE LET line == Head(lines)
         IN (IF Trim(line) # <<>> /\ JsonParses(line)
             THEN <<MessageContent(line)>>
             ELSE <<>>) \o MessagesOf(Tail(lines))

\* variant of NewBuffer: the buffer is emptied after every chunk
NewBufferEmptied(lines) == <<>>

\* buffer = lines.pop() || ''
NewBuffer(lines) == lines[Len(lines)]

\* the 'data' listener of proc.stdout on a chunk of n characters
Data(n) ==
    /\ n >= 1
    /\ Consumed + n <= Len(stdout)
    /\ LET chunk == SubSeq(stdout, Consumed + 1, Consumed + n)
           lines == SplitOn(buffer \o chunk, "\n")
       IN /\ buffer' = NewBuffer(lines)
          /\ delivered' = delivered \o MessagesOf(SubSeq(lines, 1, Len(lines) - 1))
    /\ chunks' = Append(chunks, n)
    /\ UNCHANGED <<sessions, counter, procs, returned, platform, req, ioVars,
                   listVars, stdout>>

InitStream ==
    /\ ManagerInit
    /\ platform = "linux"
    /\ ListIdle
    /\ stdout \in Streams
    /\ chunks = <<>>
    /\ buffer = <<>>
    /\ delivered = <<>>

NextStream == \E n \in 1..MaxStream : Data(n)

SpecStream == InitStream /\ [][NextStream]_vars

\* the ids send() and stop() are called with: those create() can return and
\* one it never returns
CallIds == AllIds \cup {AgentId(0)}

\* the AgentSessionManager alone, its methods called in any order
NextSessions ==
    \/ \E w \in Workdirs : Create(w)
    \/ \E id \in CallIds : Stop(id)
    \/ StopAll
    \/ \E w \in RemovePaths : StopByWorkdir(w)
    \/ \E pid \in 1..MaxCreates : ProcExit(pid)
    \/ \E id \in CallIds, c \in Contents : Send(id, c)

SpecSessions == Init /\ [][NextSessions]_vars

\* -------------------------------------------------------------- properties
LogLen == Len(req.log)

\* the positions of the log holding event (op, ev)
At(op, ev) == {i \in 1..LogLen : req.log[i] = Event(op, ev)}

\* the positions of the log holding an event of one of the ops
AtOps(ops, evs) == {i \in 1..LogLen : req.log[i].op \in ops /\ req.log[i].ev \in evs}

\* the positions of the log holding any event of one of the ops
AtAny(ops) == {i \in 1..LogLen : req.log[i].op \in ops}

RemoveOps == {"worktreeRemove", "worktreeRemoveForce"}
DeleteOps == {"rmdir", "rm"}
GitOps == RemoveOps \cup {"prune", "branchDelete"}
\* everything WorktreeService.remove does
ServiceOps == GitOps \cup DeleteOps \cup {"existsSync", "kill", "delay500"}
Finished == {"done", "fail", "skipped"}

\* the words occur in the message, consecutively and in this case
Mentions(message, words) ==
    \E k \in 0..(Len(message) - Len(words)) :
        \A j \in 1..Len(words) : message[k + j] = words[j]

\* the message caught from git worktree remove holds 'Permission denied' or
\* 'is not a working tree'
CaughtIsRecoverable ==
    \/ Mentions(req.caught, <<"Permission", "denied">>)
    \/ Mentions(req.caught, <<"is", "not", "a", "working", "tree">>)

\* C1: every step of WorktreeService.remove (any git command, any filesystem
\* deletion) comes after stopWatchersInDirectory, destroyByWorkdir and
\* stopByWorkdir have completed and after the 1000 ms delay that follows them
\* has elapsed.
C1_TeardownBeforeRemove ==
    LET service == AtAny(ServiceOps)
    IN service # {} =>
        \E w \in At("stopWatchersInDirectory", "done"),
           p \in At("destroyByWorkdir", "done"),
           a \in At("stopByWorkdir", "done"),
           t \in At("delay1000", "start"),
           d \in At("delay1000", "done") :
            /\ w < t /\ p < t /\ a < t
            /\ t < d
            /\ \A i \in service : d < i

\* a removal that went through git worktree remove and a manual deletion
C1_Witness ==
    /\ AtOps(RemoveOps, {"start"}) # {}
    /\ AtOps(DeleteOps, {"start"}) # {}
    /\ req.pc = "resolved"

\* C2 as stated: whenever remove rejects, it rejects with the generic message.
C2_OnlyGenericRejection ==
    req.pc = "rejected" =>
        req.error = <<"Failed to remove worktree directory: ">> \o req.path \o
                    <<". Please close any programs using this directory and try again.">>

\* C2 amended: remove rejects exactly where its last step failed and was one of
\* (a) the manual deletion, with the generic message; (b) a prune, with git's
\* own error; (c) git worktree remove with a message holding neither
\* 'Permission denied' nor 'is not a working tree', with git's own error.  A
\* failed kill, a failed git branch -D and a recognised git worktree remove
\* failure are swallowed.
C2_RejectionCases ==
    /\ req.pc = "rejected" =>
        /\ LogLen > 0
        /\ LET last == req.log[LogLen]
           IN /\ last.ev = "fail"
              /\ \/ /\ last.op \in DeleteOps
                    /\ req.error =
                         <<"Failed to remove worktree directory: ">> \o req.path \o
                         <<". Please close any programs using this directory and try again.">>
                 \/ /\ last.op = "prune"
                    /\ req.error = MsgPruneFailed
                 \/ /\ last.op \in RemoveOps
                    /\ req.error = req.caught
                    /\ ~CaughtIsRecoverable
    /\ \A i \in AtOps(DeleteOps \cup {"prune"}, {"fail"}) :
           i = LogLen /\ req.pc = "rejected"
    /\ \A i \in AtOps({"kill", "branchDelete"}, {"fail"}) :
           ~(i = LogLen /\ req.pc = "rejected")
    /\ \A i \in AtOps(RemoveOps, {"fail"}) :
           (i = LogLen /\ req.pc = "rejected") <=> ~CaughtIsRecoverable

\* remove rejected with git's own message after git worktree remove failed
\* with one that is not recognised
C2_Witness ==
    /\ req.pc = "rejected"
    /\ AtOps(RemoveOps, {"fail"}) # {}
    /\ req.error = MsgModified

\* C3: a manual deletion (rmdir on Windows, rm elsewhere) is issued only right
\* after git worktree remove failed with a message containing 'Permission
\* denied' or 'is not a working tree' and existsSync returned true; when git
\* worktree remove succeeded or failed with another message there is no kill,
\* no manual deletion and no second prune.
C3_ManualDeleteOnlyOnRecovery ==
    /\ \A i \in AtOps(DeleteOps, {"start"}) :
        /\ req.log[i].op = (IF platform = "win32" THEN "rmdir" ELSE "rm")
        /\ \E f \in AtOps(RemoveOps, {"fail"}) :
            /\ f < i
            /\ req.log[f + 1] = Event("existsSync", "true")
            /\ AtAny(GitOps) \cap (f + 1)..i = {}
            /\ CaughtIsRecoverable
    /\ (\/ AtOps(RemoveOps, {"done"}) # {}
        \/ (AtOps(RemoveOps, {"fail"}) # {} /\ ~CaughtIsRecoverable)) =>
            /\ AtAny({"kill", "existsSync", "delay500"} \cup DeleteOps) = {}
            /\ Cardinality(At("prune", "start")) <= 1

\* a manual deletion issued after 'is not a working tree'
C3_Witness ==
    /\ AtOps(DeleteOps, {"start"}) # {}
    /\ req.caught = MsgNotWorktree

\* C4: on the recovery path the order is kill, then the 500 ms delay, then the
\* manual deletion: the deletion is issued only after the kill step has
\* finished and the delay, started after it, has elapsed.
C4_KillDelayDelete ==
    \A i \in AtOps(DeleteOps, {"start"}) :
        \E k \in AtOps({"kill"}, Finished),
           t \in At("delay500", "start"),
           d \in At("delay500", "done") :
            /\ (platform = "win32" =>
                   \E ks \in At("kill", "start") : ks < k)
            /\ k < t /\ t < d /\ d < i
            /\ At("existsSync", "true") # {}

\* on Windows, the deletion issued after a completed kill and the delay
C4_Witness ==
    /\ At("kill", "done") # {}
    /\ At("rmdir", "start") # {}

\* C5: a failed kill is followed by the delay and the manual deletion and does
\* not reject remove; a failed git branch -D leaves remove resolved.
C5_BestEffortCleanup ==
    /\ \A i \in At("kill", "fail") :
        /\ LogLen > i /\ req.log[i + 1] = Event("delay500", "start")
        /\ req.pc = "retryDelay" => (LogLen = i + 1 /\ ENABLED RetryDelayElapsed)
        /\ req.pc # "retryDelay" =>
              /\ LogLen >= i + 3
              /\ req.log[i + 2] = Event("delay500", "done")
              /\ req.log[i + 3] = Event("rmdir", "start")
    /\ \A i \in At("branchDelete", "fail") :
        /\ req.pc = "resolved"
        /\ req.error = <<>>
        /\ i = LogLen

\* both swallowed failures in one call
C5_Witness ==
    /\ At("kill", "fail") # {}
    /\ At("branchDelete", "fail") # {}
    /\ req.pc = "resolved"

\* C6: create never returns an id twice, and every map entry is stored under
\* its own session id.
C6_UniqueSessionKeys ==
    /\ \A i, j \in 1..Len(returned) : i # j => returned[i] # returned[j]
    /\ \A k \in DOMAIN sessions : sessions[k].id = k

\* a second create after the first session is gone
C6_Witness ==
    /\ Len(returned) >= 2
    /\ returned[1] \notin DOMAIN sessions
    /\ returned[2] \in DOMAIN sessions

\* the session's directory is P or lies under P
InOrUnder(cwd, path) ==
    LET c == NormalizePath(cwd)
        p == NormalizePath(path)
    IN \/ c = p
       \/ /\ Len(c) > Len(p)
          /\ SubSeq(c, 1, Len(p)) = p
          /\ c[Len(p) + 1] = "/"

\* C7: when remove issues git worktree remove for P, the sessions map holds no
\* session whose working directory is P or lies under P.
C7_NoSessionAtRemoval ==
    [][(req.pc = "prune1" /\ req'.pc = "worktreeRemove") =>
          \A k \in DOMAIN sessions' : ~InOrUnder(sessions'[k].workdir, req'.path)]_vars

\* C8: git worktree remove is issued right after the first prune succeeded and
\* never after it failed; on the recovery path the second prune is issued
\* right after the manual deletion succeeded, or right after existsSync
\* returned false with no kill, delay or deletion, and the branch deletion
\* comes only after that prune succeeded.
C8_PruneOrder ==
    /\ \A i \in AtOps(RemoveOps, {"start"}) :
        /\ i >= 3
        /\ req.log[i - 2] = Event("prune", "start")
        /\ req.log[i - 1] = Event("prune", "done")
        /\ At("prune", "start") \cap 1..(i - 3) = {}
    /\ \A i \in At("prune", "start") :
        \/ AtAny(GitOps) \cap 1..(i - 1) = {}
        \/ /\ req.log[i - 1].op \in DeleteOps /\ req.log[i - 1].ev = "done"
        \/ /\ req.log[i - 1] = Event("existsSync", "false")
           /\ AtAny({"kill", "delay500"} \cup DeleteOps) = {}
    /\ At("prune", "start") # {} => req.log[LogLen] # Event("delay1000", "done")
    /\ \A i \in AtOps(DeleteOps, {"done"}) \cup At("existsSync", "false") :
        LogLen > i /\ req.log[i + 1] = Event("prune", "start")
    /\ \A i \in At("prune", "fail") :
        i = LogLen /\ AtAny({"branchDelete"}) = {}
    /\ \A i \in At("branchDelete", "start") :
        AtOps(RemoveOps, {"fail"}) # {} =>
            /\ req.log[i - 1] = Event("prune", "done")
            /\ Cardinality(At("prune", "done")) = 2

\* the second prune after a successful manual deletion, then the branch deletion
C8_Witness ==
    /\ AtOps(DeleteOps, {"done"}) # {}
    /\ Cardinality(At("prune", "done")) = 2
    /\ At("branchDelete", "start") # {}

\* C9 as stated: git branch -D is issued only with deleteBranch and branch set
\* and after git worktree remove succeeded or after both the manual deletion
\* and the second prune completed; a rejected call issued no branch deletion.
C9_BranchDeleteAfterRemoval ==
    /\ \A i \in At("branchDelete", "start") :
        /\ req.deleteBranch /\ req.branch # <<>>
        /\ \/ \E r \in AtOps(RemoveOps, {"done"}) : r < i
           \/ \E d \in AtOps(DeleteOps, {"done"}), q \in At("prune", "done") :
                 d < q /\ q < i /\ Cardinality(At("prune", "done")) = 2
    /\ req.pc = "rejected" => AtAny({"branchDelete"}) = {}

\* C9 amended: ... or after the second prune completed, which follows the
\* manual deletion when the directory existed and follows existsSync
\* returning false when it did not.
C9_BranchDeleteAfterRecovery ==
    /\ \A i \in At("branchDelete", "start") :
        /\ req.deleteBranch /\ req.branch # <<>>
        /\ \/ \E r \in AtOps(RemoveOps, {"done"}) : r < i
           \/ \E d \in AtOps(DeleteOps, {"done"}) \cup At("existsSync", "false"),
                 q \in At("prune", "done") :
                 d < q /\ q < i /\ Cardinality(At("prune", "done")) = 2
    /\ req.pc = "rejected" => AtAny({"branchDelete"}) = {}
    /\ (req.pc = "resolved" /\ req.deleteBranch /\ req.branch # <<>>) =>
           At("branchDelete", "start") # {}

\* the branch deleted after a recovery that had no directory to delete
C9_Witness ==
    /\ At("branchDelete", "start") # {}
    /\ At("existsSync", "false") # {}

\* C10: the step that runs stopByWorkdir(W) deletes from the map exactly the
\* sessions whose normalised directory equals normalised W or continues it
\* with '/', signals exactly their processes, and leaves every other entry
\* and process as it was.
C10_StopByWorkdirFrame ==
    [][(req.pc = "stopWatchers" /\ req'.pc = "handlerDelay") =>
          LET hit == {k \in DOMAIN sessions : InOrUnder(sessions[k].workdir, req.path)}
              hitPids == {sessions[k].process : k \in hit}
          IN /\ DOMAIN sessions' = (DOMAIN sessions) \ hit
             /\ \A k \in DOMAIN sessions' : sessions'[k] = sessions[k]
             /\ \A n \in DOMAIN procs :
                   procs'[n] = IF n \in hitPids /\ procs[n] = "running"
                               THEN "killed" ELSE procs[n]
             /\ req'.stopped = {sessions[k] : k \in hit}]_vars

\* stopByWorkdir('/W') has stopped the session in '\W\s' and kept the one in '/wx'
C10_Witness ==
    /\ req.pc = "handlerDelay"
    /\ req.path = PathUpperW
    /\ \E x \in req.stopped : x.workdir = PathSub /\ procs[x.process] = "killed"
    /\ \E k \in DOMAIN sessions :
          sessions[k].workdir = PathWx /\ procs[sessions[k].process] = "running"

\* the send() calls that have been made
Sends == 1..Len(sendLog)

\* C11: a send() call appends one prompt line to the stdin of the process of
\* the session stored under its id, and resolves, if that id is in the map;
\* otherwise it rejects with 'Session not found: <id>', writes nothing to any
\* stdin and leaves the map as it was.  Nothing else writes to a stdin.
C11_SendOnlyToLiveSession ==
    [][IF Len(sendLog') > Len(sendLog)
       THEN LET call == sendLog'[Len(sendLog')]
            IN /\ Len(sendLog') = Len(sendLog) + 1
               /\ sessions' = sessions
               /\ IF call.id \in DOMAIN sessions
                  THEN /\ call.settled = "resolved"
                       /\ \A n \in DOMAIN stdin :
                            IF n = sessions[call.id].process
                            THEN /\ Len(stdin'[n]) = Len(stdin[n]) + 1
                                 /\ SubSeq(stdin'[n], 1, Len(stdin[n])) = stdin[n]
                                 /\ stdin'[n][Len(stdin'[n])][1].text = call.content
                            ELSE stdin'[n] = stdin[n]
                  ELSE /\ call.settled = "rejected"
                       /\ call.message = <<"Session not found: ", call.id>>
                       /\ stdin' = stdin
       ELSE stdin' = stdin]_vars

\* one send() reached a live session, another was rejected for the id of a
\* session that had been created and removed
C11_Witness ==
    \E i, j \in Sends :
        /\ sendLog[i].settled = "resolved"
        /\ sendLog[j].settled = "rejected"
        /\ \E n \in 1..Len(returned) :
              returned[n] = sendLog[j].id /\ stdin[n] = <<>>

\* C12: the step in which a process exits removes from the map at most the
\* entry of the session created with that process and changes no other
\* entry; and no session whose process has exited is in the map.
C12_ExitRemovesOwnEntryOnly ==
    [][/\ \A pid \in DOMAIN procs :
            (procs[pid] # "exited" /\ procs'[pid] = "exited") =>
                /\ \A k \in DOMAIN sessions :
                      sessions[k].process # pid =>
                          (k \in DOMAIN sessions' /\ sessions'[k] = sessions[k])
                /\ DOMAIN sessions' \subseteq DOMAIN sessions
       /\ \A k \in DOMAIN sessions' : procs'[sessions'[k].process] # "exited"]_vars

\* the first session's process has exited while the second session, created
\* later, is in the map with its process running
C12_Witness ==
    /\ Len(returned) >= 2
    /\ procs[1] = "exited"
    /\ returned[2] \in DOMAIN sessions
    /\ procs[sessions[returned[2]].process] = "running"

\* the positions of the newlines of the output
Newlines == {i \in 1..Len(porcelain) : porcelain[i] = "\n"}

\* the position of the k-th newline; 0 for k = 0, one past the end after the last
NewlineAt(k) ==
    IF k = 0 THEN 0
    ELSE IF k > Cardinality(Newlines) THEN Len(porcelain) + 1
    ELSE CHOOSE p \in Newlines : Cardinality({q \in Newlines : q <= p}) = k

\* the k-th line of the output
OutputLine(k) == SubSeq(porcelain, NewlineAt(k - 1) + 1, NewlineAt(k) - 1)

OutputLineCount == Cardinality(Newlines) + 1

\* line k is 'worktree ' followed by anything
IsWorktreeLine(k) ==
    /\ Len(OutputLine(k)) >= 9
    /\ SubSeq(OutputLine(k), 1, 9) = <<"w", "o", "r", "k", "t", "r", "e", "e", " ">>

\* the lines a record is made of: 'worktree ' followed by a non-empty path
RecordLines == {k \in 1..OutputLineCount : IsWorktreeLine(k) /\ Len(OutputLine(k)) > 9}

\* the lines after line k and before the next 'worktree ' line
BlockOf(k) ==
    {j \in (k + 1)..OutputLineCount : \A w \in (k + 1)..j : ~IsWorktreeLine(w)}

\* the line is the keyword alone, or the keyword, a space and more text
IsKeywordLine(line, keyword) ==
    \/ line = keyword
    \/ /\ Len(line) > Len(keyword)
       /\ SubSeq(line, 1, Len(keyword)) = keyword
       /\ line[Len(keyword) + 1] = " "

\* the text after the keyword of the last line of the block that starts with
\* the keyword and a space; Undefined if there is none
LastValue(block, keyword) ==
    LET hits == {j \in block : /\ Len(OutputLine(j)) > Len(keyword)
                               /\ IsKeywordLine(OutputLine(j), keyword)}
    IN IF hits = {} THEN Undefined
       ELSE LET j == CHOOSE h \in hits : \A g \in hits : g <= h
            IN SubSeq(OutputLine(j), Len(keyword) + 2, Len(OutputLine(j)))

\* the branch name of a ref: 'refs/heads/' taken off its front
BranchName(ref) ==
    IF ref # Undefined /\ Len(ref) >= 11 /\
       SubSeq(ref, 1, 11) = <<"r", "e", "f", "s", "/", "h", "e", "a", "d", "s", "/">>
    THEN SubSeq(ref, 12, Len(ref))
    ELSE ref

\* the array list() returned holds one record per record line, in the order
\* of the output, each with the HEAD, branch, locked and prunable lines of its
\* block, a locked or prunable line being one Flag accepts; the first record
\* is main, a later one is main exactly if its block has a 'bare' line
ListAsClaimed(Flag(_, _)) ==
    worktrees.returned =>
        /\ Len(worktrees.value) = Cardinality(RecordLines)
        /\ \A k \in RecordLines :
              LET r == worktrees.value[Cardinality({j \in RecordLines : j <= k})]
                  block == BlockOf(k)
              IN /\ r.path = SubSeq(OutputLine(k), 10, Len(OutputLine(k)))
                 /\ r.head = LastValue(block, <<"H", "E", "A", "D">>)
                 /\ r.branch = BranchName(LastValue(block, <<"b", "r", "a", "n", "c", "h">>))
                 /\ r.isLocked =
                      (\E j \in block : Flag(OutputLine(j), <<"l", "o", "c", "k", "e", "d">>))
                 /\ r.prunable =
                      (\E j \in block :
                          Flag(OutputLine(j), <<"p", "r", "u", "n", "a", "b", "l", "e">>))
                 /\ r.isMainWorktree =
                      (\/ \A j \in RecordLines : k <= j
                       \/ \E j \in block : OutputLine(j) = <<"b", "a", "r", "e">>)

\* C13: list() returns one record per 'worktree <path>' line with a non-empty
\* path, in output order, each carrying the HEAD, branch, locked and prunable
\* lines that follow it before the next 'worktree ' line (git prints 'locked'
\* and 'prunable' followed by a reason); the first record is main, a later
\* one only if its block has a 'bare' line.
C13_ListRecords == ListAsClaimed(IsKeywordLine)

\* the same with only the bare words 'locked' and 'prunable' counted as
\* locked and prunable lines
SameLine(line, keyword) == line = keyword

C13_ListRecordsExactFlags == ListAsClaimed(SameLine)

\* two records, the second with a branch and a bare 'locked' line
C13_Witness ==
    /\ worktrees.returned
    /\ Len(worktrees.value) = 2
    /\ worktrees.value[2].isLocked
    /\ worktrees.value[2].branch = <<"m">>

\* the part of the stream the 'data' events have carried
Seen == SubSeq(stdout, 1, Consumed)

\* the positions of the newlines of that part
SeenNewlines == {i \in 1..Len(Seen) : Seen[i] = "\n"}

\* the position of its k-th newline, 0 for k = 0
SeenNewlineAt(k) ==
    IF k = 0 THEN 0
    ELSE CHOOSE p \in SeenNewlines : Cardinality({q \in SeenNewlines : q <= p}) = k

\* its k-th newline-terminated line, without the newline
SeenLine(k) == SubSeq(Seen, SeenNewlineAt(k - 1) + 1, SeenNewlineAt(k) - 1)

\* the terminated lines that are not blank and parse as JSON
MessageLines ==
    {k \in 1..Cardinality(SeenNewlines) :
        /\ \E i \in 1..Len(SeenLine(k)) : SeenLine(k)[i] # " "
        /\ JsonParses(SeenLine(k))}

\* C14: however stdout is cut into chunks, the messages passed to onMessage
\* so far are, one each and in stream order, the newline-terminated,
\* non-blank lines seen so far that parse as JSON; other lines give nothing,
\* and what follows the last newline is kept in the buffer and gives nothing.
C14_OneMessagePerJsonLine ==
    /\ Len(delivered) = Cardinality(MessageLines)
    /\ \A k \in MessageLines :
          delivered[Cardinality({j \in MessageLines : j <= k})] = MessageContent(SeenLine(k))
    /\ buffer = SubSeq(Seen, SeenNewlineAt(Cardinality(SeenNewlines)) + 1, Len(Seen))

\* 'x\n1\n' arrived as 'x\n1' and '\n': the line that does not parse gave
\* nothing, the line cut by the chunk boundary gave its message once
C14_Witness ==
    /\ stdout = <<"x", "\n", "1", "\n">>
    /\ chunks = <<3, 1>>
    /\ delivered = << <<"1">> >>
    /\ buffer = <<>>

=============================================================================
